---- MODULE Spec2Model ----
(***************************************************************************)
(* EcoSmart backend: the incentive engine (eco-coin wallet and ledger,     *)
(* badge tiers, city statistics) and the report-reward orchestration of    *)
(* the validation endpoint.  Every request handler is a process; one step  *)
(* of a process is one awaited call on the document store.                 *)
(***************************************************************************)
EXTENDS Integers, Sequences, FiniteSets, TLC

VARIABLES
    wallets,        \* digital_wallets collection
    transactions,   \* eco_coin_transactions collection (the ledger)
    stats,          \* user_badge_stats collection
    user_badges,    \* user_badges collection
    reports,        \* waste_reports collection
    cities,         \* city_stats collection
    users,          \* users collection: user id -> city ("" when unset)
    pc,             \* position of each request handler
    loc,            \* local variables of each request handler
    nops            \* number of requests issued so far

vars == <<wallets, transactions, stats, user_badges, reports, cities, users,
          pc, loc, nops>>

walletVars == <<wallets, transactions>>
badgeVars == <<stats, user_badges>>
restOfWallet == <<stats, user_badges, reports, cities, users>>
restOfBadge == <<wallets, transactions, reports, cities, users>>
restOfCity == <<wallets, transactions, stats, user_badges, reports, users>>
storeVars == <<wallets, transactions, stats, user_badges, reports, cities, users>>

----------------------------------------------------------------------------
(* Bounds of the model *)

NumProcs == 2
MaxOps == 2

Procs == 1..NumProcs
Users == {"u1", "u2"}

(* Numbers of 20-coin credits a wallet has received before the run starts. *)
InitCredits == {0, 20, 25}

(* Inputs of the requests the model issues *)
CreditAmounts == {10, 20}
RedeemInputs == {"med_6", "med_1", "med_0"}

None == "None"

----------------------------------------------------------------------------
(* Document store helpers: a collection is a sequence of documents in      *)
(* insertion order; find_one and update_one act on the first match.        *)

FindOne(coll, user_id) ==
    IF \E i \in 1..Len(coll) : coll[i].user_id = user_id
    THEN CHOOSE i \in 1..Len(coll) :
            /\ coll[i].user_id = user_id
            /\ \A j \in 1..(i - 1) : coll[j].user_id # user_id
    ELSE 0

----------------------------------------------------------------------------
(* Wallet ledger *)

get_available_benefits ==
    [med_1 |-> 500, med_2 |-> 750, med_3 |-> 600, med_4 |-> 800,
     med_5 |-> 1000, med_6 |-> 400, med_7 |-> 900, med_8 |-> 1200,
     med_9 |-> 450, med_10 |-> 1500]

BenefitIds == DOMAIN get_available_benefits

coins_required(benefit_id) == get_available_benefits[benefit_id]

get_wallet_by_user_id(user_id) == FindOne(wallets, user_id)

create_wallet(user_id) ==
    [user_id |-> user_id, balance |-> 0, total_earned |-> 0, total_spent |-> 0]

(* update_one({"user_id": u}, {"$inc": {balance: +a, total_earned: +a}}) *)
(* a credit that leaves total_earned alone *)
IncEarnedBalanceOnly(coll, user_id, amount) ==
    LET i == FindOne(coll, user_id) IN
    IF i = 0 THEN coll
    ELSE [coll EXCEPT ![i].balance = @ + amount]

IncEarned(coll, user_id, amount) ==
    LET i == FindOne(coll, user_id) IN
    IF i = 0 THEN coll
    ELSE [coll EXCEPT ![i].balance = @ + amount,
                      ![i].total_earned = @ + amount]

(* a debit that leaves total_spent alone *)
IncSpentBalanceOnly(coll, user_id, coins_used) ==
    LET i == FindOne(coll, user_id) IN
    IF i = 0 THEN coll
    ELSE [coll EXCEPT ![i].balance = @ - coins_used]

(* update_one({"user_id": u}, {"$inc": {balance: -c, total_spent: +c}}) *)
IncSpent(coll, user_id, coins_used) ==
    LET i == FindOne(coll, user_id) IN
    IF i = 0 THEN coll
    ELSE [coll EXCEPT ![i].balance = @ - coins_used,
                      ![i].total_spent = @ + coins_used]

EarnTransaction(user_id, amount) ==
    [user_id |-> user_id, type |-> "earn", amount |-> amount, benefit_id |-> None]

(* a spend entry that records the amount with the sign of the debit *)
SpendTransactionSigned(user_id, benefit_id, coins_used) ==
    [user_id |-> user_id, type |-> "spend", amount |-> 0 - coins_used,
     benefit_id |-> benefit_id]

SpendTransaction(user_id, benefit_id, coins_used) ==
    [user_id |-> user_id, type |-> "spend", amount |-> coins_used,
     benefit_id |-> benefit_id]

(* a balance check that only refuses an empty wallet *)
InsufficientCoinsEmptyOnly(balance, coins_used) == balance <= 0

InsufficientCoins(balance, coins_used) == balance < coins_used

----------------------------------------------------------------------------
(* Process bookkeeping *)

IdleLoc ==
    [op |-> None, user_id |-> None, arg |-> None, amount |-> 0,
     balance |-> 0, status |-> 0, ret |-> None,
     badge |-> None, todo |-> <<>>, aret |-> None,
     severity |-> None, report |-> 0, failed |-> None, steps |-> <<>>,
     city |-> "", idx |-> 0, value |-> <<0, 1>>, scores |-> <<>>,
     total_reports |-> 0, next_badge |-> None, reports_needed |-> 0,
     ranked |-> <<>>, limited |-> <<>>, classifier |-> None]

Finish(p, status) ==
    /\ pc' = [pc EXCEPT ![p] = "idle"]
    /\ loc' = [loc EXCEPT ![p].status = status]

Goto(p, label) == pc' = [pc EXCEPT ![p] = label]

(* Reward configuration of the validation endpoint *)
COINS_PER_REPORT == 10

(* SEVERITY_MULTIPLIERS, in tenths, keyed by severity.lower() *)
SEVERITY_MULTIPLIERS == [medium |-> 10, high |-> 15, critical |-> 20]

(* str.lower() on the strings of the model *)
lower(str) ==
    CASE str = "Medium" -> "medium"
      [] str = "High" -> "high"
      [] str = "Critical" -> "critical"
      [] str = "Low" -> "low"
      [] str = "Clean" -> "clean"
      [] str = "Pune" -> "pune"
      [] str = "PUNE" -> "pune"
      [] str = "Agra" -> "agra"
      [] OTHER -> str

(* a reward that ignores the severity multiplier *)
coins_earned_base_only(severity) == COINS_PER_REPORT

(* int(base_coins * multiplier) *)
coins_earned(severity) ==
    LET key == lower(severity)
        multiplier == IF key \in DOMAIN SEVERITY_MULTIPLIERS
                      THEN SEVERITY_MULTIPLIERS[key] ELSE 10
    IN (COINS_PER_REPORT * multiplier) \div 10

(* A crud function returns to the code that called it: it ends the        *)
(* request when the model calls it directly, and inside                   *)
(* save_report_if_severe the next reward step follows.                    *)
ReturnWith(p, newloc) ==
    CASE newloc.ret = None ->
            /\ pc' = [pc EXCEPT ![p] = "idle"]
            /\ loc' = [loc EXCEPT ![p] = [newloc EXCEPT !.status = 200]]
      [] newloc.ret = "add_coins" ->
            (* increment_user_report_count is back: credit the coins *)
            /\ pc' = [pc EXCEPT ![p] = "ac_get"]
            /\ loc' = [loc EXCEPT ![p] =
                         [newloc EXCEPT !.steps = Append(@, "badge"),
                                        !.amount = coins_earned(newloc.severity),
                                        !.ret = "get_user"]]
      [] newloc.ret = "get_user" ->
            (* add_coins is back: look the user's city up *)
            /\ pc' = [pc EXCEPT ![p] = "sr_user"]
            /\ loc' = [loc EXCEPT ![p] = [newloc EXCEPT !.steps = Append(@, "coins")]]
      [] newloc.ret = "engagement" ->
            (* increment_city_report_count is back *)
            /\ pc' = [pc EXCEPT ![p] = "ue_find"]
            /\ loc' = [loc EXCEPT ![p] =
                         [newloc EXCEPT !.steps = Append(@, "city_reports"),
                                        !.ret = "respond"]]
      [] newloc.ret = "respond" ->
            (* update_city_engagement is back: save_report_if_severe returns *)
            /\ pc' = [pc EXCEPT ![p] = "vw_stats"]
            /\ loc' = [loc EXCEPT ![p] =
                         [newloc EXCEPT !.steps = Append(@, "city_engagement")]]

Return(p) == ReturnWith(p, loc[p])

----------------------------------------------------------------------------
(* add_coins(user_id, amount, description) *)

StartCredit(p) ==
    /\ pc[p] = "idle"
    /\ nops < MaxOps
    /\ \E u \in Users, a \in CreditAmounts :
          loc' = [loc EXCEPT ![p] = [IdleLoc EXCEPT !.op = "add_coins",
                                        !.user_id = u, !.amount = a]]
    /\ Goto(p, "ac_get")
    /\ nops' = nops + 1
    /\ UNCHANGED <<wallets, transactions, restOfWallet>>

(* add_coins called with any integer: the signature takes an int and the  *)
(* body has no check of it                                                  *)
AnyAmounts == {-10, 0, 10}

StartCreditAny(p) ==
    /\ pc[p] = "idle"
    /\ nops < MaxOps
    /\ \E u \in Users, a \in AnyAmounts :
          loc' = [loc EXCEPT ![p] = [IdleLoc EXCEPT !.op = "add_coins",
                                        !.user_id = u, !.amount = a]]
    /\ Goto(p, "ac_get")
    /\ nops' = nops + 1
    /\ UNCHANGED <<wallets, transactions, restOfWallet>>

AcGet(p) ==
    /\ pc[p] = "ac_get"
    /\ IF get_wallet_by_user_id(loc[p].user_id) = 0
       THEN Goto(p, "ac_create")
       ELSE Goto(p, "ac_update")
    /\ UNCHANGED <<wallets, transactions, loc, nops, restOfWallet>>

AcCreate(p) ==
    /\ pc[p] = "ac_create"
    /\ wallets' = Append(wallets, create_wallet(loc[p].user_id))
    /\ Goto(p, "ac_update")
    /\ UNCHANGED <<transactions, loc, nops, restOfWallet>>

AcUpdate(p) ==
    /\ pc[p] = "ac_update"
    /\ wallets' = IncEarned(wallets, loc[p].user_id, loc[p].amount)
    /\ Goto(p, "ac_insert")
    /\ UNCHANGED <<transactions, loc, nops, restOfWallet>>

AcInsert(p) ==
    /\ pc[p] = "ac_insert"
    /\ transactions' = Append(transactions,
                              EarnTransaction(loc[p].user_id, loc[p].amount))
    /\ Goto(p, "ac_read")
    /\ UNCHANGED <<wallets, loc, nops, restOfWallet>>

(* the closing get_wallet_by_user_id, whose result is the return value *)
AcRead(p) ==
    /\ pc[p] = "ac_read"
    /\ Return(p)
    /\ UNCHANGED <<wallets, transactions, nops, restOfWallet>>

----------------------------------------------------------------------------
(* POST /{user_id}/redeem/{benefit_id} and crud redeem_benefit *)

StartRedeem(p) ==
    /\ pc[p] = "idle"
    /\ nops < MaxOps
    /\ \E u \in Users, b \in RedeemInputs :
          loc' = [loc EXCEPT ![p] = [IdleLoc EXCEPT !.op = "redeem_benefit",
                                        !.user_id = u, !.arg = b]]
    /\ Goto(p, "rb_api")
    /\ nops' = nops + 1
    /\ UNCHANGED <<wallets, transactions, restOfWallet>>

(* The endpoint: benefit lookup, wallet lookup, balance check. *)
RbApi(p) ==
    /\ pc[p] = "rb_api"
    /\ LET i == get_wallet_by_user_id(loc[p].user_id) IN
       IF loc[p].arg \notin BenefitIds THEN Finish(p, 404)
       ELSE IF i = 0 THEN Finish(p, 404)
       ELSE IF InsufficientCoins(wallets[i].balance, coins_required(loc[p].arg))
       THEN Finish(p, 400)
       ELSE /\ pc' = [pc EXCEPT ![p] = "rb_get"]
            /\ loc' = [loc EXCEPT ![p].balance = wallets[i].balance,
                                  ![p].amount = coins_required(loc[p].arg)]
    /\ UNCHANGED <<wallets, transactions, nops, restOfWallet>>

(* crud: wallet lookup and balance check; a ValueError reaches the         *)
(* endpoint's "except Exception" and becomes a 500.                        *)
RbGet(p) ==
    /\ pc[p] = "rb_get"
    /\ LET i == get_wallet_by_user_id(loc[p].user_id) IN
       IF i = 0 THEN Finish(p, 500)
       ELSE IF InsufficientCoins(wallets[i].balance, loc[p].amount)
       THEN Finish(p, 500)
       ELSE Goto(p, "rb_update") /\ UNCHANGED loc
    /\ UNCHANGED <<wallets, transactions, nops, restOfWallet>>

RbUpdate(p) ==
    /\ pc[p] = "rb_update"
    /\ wallets' = IncSpent(wallets, loc[p].user_id, loc[p].amount)
    /\ Goto(p, "rb_insert")
    /\ UNCHANGED <<transactions, loc, nops, restOfWallet>>

RbInsert(p) ==
    /\ pc[p] = "rb_insert"
    /\ transactions' = Append(transactions,
           SpendTransaction(loc[p].user_id, loc[p].arg, loc[p].amount))
    /\ Finish(p, 200)
    /\ UNCHANGED <<wallets, nops, restOfWallet>>

----------------------------------------------------------------------------
(* Badge tier engine *)

(* the catalog seeded by initialize_default_badges, as get_badges returns  *)
(* it: sorted by required_reports; a badge's id stands for its ObjectId    *)
badges ==
    << [id |-> "bronze", level |-> "bronze", required_reports |-> 10],
       [id |-> "silver", level |-> "silver", required_reports |-> 25],
       [id |-> "gold", level |-> "gold", required_reports |-> 50],
       [id |-> "platinum", level |-> "platinum", required_reports |-> 100],
       [id |-> "diamond", level |-> "diamond", required_reports |-> 250] >>

BadgeIds == {badges[i].id : i \in 1..Len(badges)}

BadgeById(id) == badges[CHOOSE i \in 1..Len(badges) : badges[i].id = id]

(* the levels a BadgeAddRequest accepts *)
BadgeLevel == {"bronze", "silver", "gold"}

(* a document that has no total_reports field *)
Absent == -1

(* doc.get("total_reports", 0) *)
TotalReportsOf(doc) ==
    IF doc.total_reports = Absent THEN 0 ELSE doc.total_reports

get_user_badge_stats(user_id) == FindOne(stats, user_id)

(* an update that sets the count to 1 where it should add 1 *)
IncReportsSetOne(coll, user_id) ==
    LET i == FindOne(coll, user_id) IN
    IF i = 0 THEN coll
    ELSE [coll EXCEPT ![i].total_reports = 1]

(* update_one({"user_id": u}, {"$inc": {"total_reports": 1}}) *)
IncReports(coll, user_id) ==
    LET i == FindOne(coll, user_id) IN
    IF i = 0 THEN coll
    ELSE [coll EXCEPT ![i].total_reports = TotalReportsOf(coll[i]) + 1]

NewStats(user_id) ==
    [user_id |-> user_id, total_reports |-> 1, badges_earned |-> {}]

(* update_one({"user_id": u}, {"$addToSet": {"badges_earned": b}}, upsert) *)
(* on the document that matches, and the document it inserts when none    *)
(* matches                                                                 *)
AddToSet(coll, user_id, badge_id) ==
    LET i == FindOne(coll, user_id) IN
    IF i = 0 THEN coll
    ELSE [coll EXCEPT ![i].badges_earned = @ \cup {badge_id}]

UpsertedStats(user_id, badge_id) ==
    [user_id |-> user_id, total_reports |-> Absent, badges_earned |-> {badge_id}]

(* update_one({"user_id": u}, {"$set": {"total_reports": n}}) *)
SetReports(coll, user_id, n) ==
    LET i == FindOne(coll, user_id) IN
    IF i = 0 THEN coll ELSE [coll EXCEPT ![i].total_reports = n]

UserBadge(user_id, badge_id) ==
    [user_id |-> user_id, badge_id |-> badge_id,
     badge_level |-> BadgeById(badge_id).level]

(* get_user_badges, reduced to the badge ids the caller looks at *)
earned_badge_ids(user_id) ==
    {user_badges[i].badge_id :
        i \in {j \in 1..Len(user_badges) : user_badges[j].user_id = user_id}}

(* eligibility that starts one report after the threshold *)
eligible_badges_above(total_reports) ==
    SelectSeq(badges, LAMBDA b : total_reports > b.required_reports)

eligible_badges(total_reports) ==
    SelectSeq(badges, LAMBDA b : total_reports >= b.required_reports)

(* the badges the loop of increment_user_report_count assigns, in order *)
NewBadges(total_reports, user_id) ==
    LET earned == earned_badge_ids(user_id)
        new == SelectSeq(eligible_badges(total_reports),
                         LAMBDA b : b.id \notin earned)
    IN [k \in 1..Len(new) |-> new[k].id]

(* add_badge: the report count the badge level calls for, 0 when the user *)
(* already has at least that many reports                                 *)
(* a back-fill that only knows the bronze threshold *)
required_reports_bronze_only(badge_level, current_reports) ==
    IF current_reports < 10 THEN 10 ELSE 0

required_reports(badge_level, current_reports) ==
    IF badge_level = "gold" /\ current_reports < 50 THEN 50
    ELSE IF badge_level = "silver" /\ current_reports < 25 THEN 25
    ELSE IF badge_level = "bronze" /\ current_reports < 10 THEN 10
    ELSE 0

(* add_badge, no stats document: the count the new document gets *)
required_reports_new(badge_level) ==
    IF badge_level = "gold" THEN 50
    ELSE IF badge_level = "silver" THEN 25
    ELSE IF badge_level = "bronze" THEN 10
    ELSE 0

----------------------------------------------------------------------------
(* assign_user_badge(user_id, badge_id, badge_name, badge_level) *)

UbInsert(p) ==
    /\ pc[p] = "ub_insert"
    /\ user_badges' = Append(user_badges, UserBadge(loc[p].user_id, loc[p].badge))
    /\ Goto(p, "ub_upsert")
    /\ UNCHANGED <<stats, loc, nops, restOfBadge>>

(* the stats update, then back to the caller: the loop of                 *)
(* increment_user_report_count takes the next new badge or returns,       *)
(* add_badge goes on to the report count                                  *)
AfterAssign(p) ==
    IF loc[p].aret = "iu"
    THEN LET rest == Tail(loc[p].todo) IN
         IF rest = <<>>
         THEN ReturnWith(p, [loc[p] EXCEPT !.todo = rest])
         ELSE /\ Goto(p, "ub_insert")
              /\ loc' = [loc EXCEPT ![p].todo = rest, ![p].badge = Head(rest)]
    ELSE Goto(p, "ab_stats") /\ UNCHANGED loc

(* The $addToSet on the stats document is one atomic write.  When the     *)
(* user has no stats document the upsert inserts one; user_badge_stats    *)
(* has no unique index on user_id, so the lookup and the insert are two   *)
(* steps.                                                                  *)
UbUpsert(p) ==
    /\ pc[p] = "ub_upsert"
    /\ IF get_user_badge_stats(loc[p].user_id) = 0
       THEN Goto(p, "ub_upsert_new") /\ UNCHANGED <<stats, loc>>
       ELSE /\ stats' = AddToSet(stats, loc[p].user_id, loc[p].badge)
            /\ AfterAssign(p)
    /\ UNCHANGED <<user_badges, nops, restOfBadge>>

(* the insert of the upsert *)
UbUpsertNew(p) ==
    /\ pc[p] = "ub_upsert_new"
    /\ stats' = Append(stats, UpsertedStats(loc[p].user_id, loc[p].badge))
    /\ AfterAssign(p)
    /\ UNCHANGED <<user_badges, nops, restOfBadge>>

----------------------------------------------------------------------------
(* increment_user_report_count(user_id): record_report *)

StartReport(p) ==
    /\ pc[p] = "idle"
    /\ nops < MaxOps
    /\ \E u \in Users :
          loc' = [loc EXCEPT ![p] = [IdleLoc EXCEPT !.op = "record_report",
                                        !.user_id = u]]
    /\ Goto(p, "iu_find")
    /\ nops' = nops + 1
    /\ UNCHANGED <<badgeVars, restOfBadge>>

(* The caller runs the badge step again for the report it has just       *)
(* recorded: increment_user_report_count takes the user id alone, so the  *)
(* second run is one more call with the same argument.                    *)
StartRetry(p) ==
    /\ pc[p] = "idle"
    /\ nops < MaxOps
    /\ loc[p].op = "record_report"
    /\ loc[p].status = 200
    /\ loc' = [loc EXCEPT ![p].arg = "retry", ![p].status = 0]
    /\ Goto(p, "iu_find")
    /\ nops' = nops + 1
    /\ UNCHANGED <<badgeVars, restOfBadge>>

IuFind(p) ==
    /\ pc[p] = "iu_find"
    /\ IF get_user_badge_stats(loc[p].user_id) # 0
       THEN Goto(p, "iu_inc")
       ELSE Goto(p, "iu_insert")
    /\ UNCHANGED <<badgeVars, loc, nops, restOfBadge>>

IuInc(p) ==
    /\ pc[p] = "iu_inc"
    /\ stats' = IncReports(stats, loc[p].user_id)
    /\ Goto(p, "iu_reread")
    /\ UNCHANGED <<user_badges, loc, nops, restOfBadge>>

IuInsert(p) ==
    /\ pc[p] = "iu_insert"
    /\ stats' = Append(stats, NewStats(loc[p].user_id))
    /\ Goto(p, "iu_reread")
    /\ UNCHANGED <<user_badges, loc, nops, restOfBadge>>

(* updated_stats = find_one(...); total_reports = updated_stats.get(...) *)
IuReread(p) ==
    /\ pc[p] = "iu_reread"
    /\ LET i == get_user_badge_stats(loc[p].user_id) IN
       IF i = 0 THEN Return(p)
       ELSE /\ Goto(p, "iu_eligible")
            /\ loc' = [loc EXCEPT ![p].amount = TotalReportsOf(stats[i])]
    /\ UNCHANGED <<badgeVars, nops, restOfBadge>>

(* get_badges and get_user_badges: the new eligible badges are fixed here *)
IuEligible(p) ==
    /\ pc[p] = "iu_eligible"
    /\ LET new == NewBadges(loc[p].amount, loc[p].user_id) IN
       IF new = <<>> THEN Return(p)
       ELSE /\ Goto(p, "ub_insert")
            /\ loc' = [loc EXCEPT ![p].todo = new, ![p].badge = Head(new),
                                  ![p].aret = "iu"]
    /\ UNCHANGED <<badgeVars, nops, restOfBadge>>

----------------------------------------------------------------------------
(* POST /add: add_badge(request) *)

StartAddBadge(p) ==
    /\ pc[p] = "idle"
    /\ nops < MaxOps
    /\ \E u \in Users, l \in BadgeLevel :
          loc' = [loc EXCEPT ![p] = [IdleLoc EXCEPT !.op = "add_badge",
                                        !.user_id = u, !.arg = l]]
    /\ Goto(p, "ab_user")
    /\ nops' = nops + 1
    /\ UNCHANGED <<badgeVars, restOfBadge>>

(* get_user_by_id, get_badges and the badge of the requested level *)
AbUser(p) ==
    /\ pc[p] = "ab_user"
    /\ LET found == {i \in 1..Len(badges) : badges[i].level = loc[p].arg} IN
       IF loc[p].user_id \notin DOMAIN users THEN Finish(p, 404)
       ELSE IF found = {} THEN Finish(p, 404)
       ELSE /\ Goto(p, "ub_insert")
            /\ loc' = [loc EXCEPT
                         ![p].badge = badges[CHOOSE i \in found :
                                               \A j \in found : i <= j].id,
                         ![p].aret = "ab"]
    /\ UNCHANGED <<badgeVars, nops, restOfBadge>>

(* get_user_badge_stats and the choice of the report count to write *)
AbStats(p) ==
    /\ pc[p] = "ab_stats"
    /\ LET i == get_user_badge_stats(loc[p].user_id) IN
       IF i # 0
       THEN LET current_reports == TotalReportsOf(stats[i])
                required == required_reports(loc[p].arg, current_reports)
            IN IF required > 0 /\ current_reports < required
               THEN /\ Goto(p, "ab_set")
                    /\ loc' = [loc EXCEPT ![p].amount = required]
               ELSE Finish(p, 200)
       ELSE /\ Goto(p, "ab_insert")
            /\ loc' = [loc EXCEPT ![p].amount = required_reports_new(loc[p].arg)]
    /\ UNCHANGED <<badgeVars, nops, restOfBadge>>

(* the write that closes add_badge: $set of total_reports when the stats  *)
(* document was found, insert_one of a new document when it was not       *)
AbWrite(p) ==
    /\ pc[p] \in {"ab_set", "ab_insert"}
    /\ stats' = IF pc[p] = "ab_set"
                THEN SetReports(stats, loc[p].user_id, loc[p].amount)
                ELSE Append(stats, [user_id |-> loc[p].user_id,
                                    total_reports |-> loc[p].amount,
                                    badges_earned |-> {loc[p].badge}])
    /\ Finish(p, 200)
    /\ UNCHANGED <<user_badges, nops, restOfBadge>>

----------------------------------------------------------------------------
(* City scoring engine.  Scores are fractions <<numerator, denominator>>  *)
(* in lowest terms, so that the arithmetic of calculate_city_score is      *)
(* carried out exactly.                                                    *)

RECURSIVE GCD(_, _)
GCD(a, b) == IF b = 0 THEN a ELSE GCD(b, a % b)

Abs(n) == IF n < 0 THEN -n ELSE n

Frac(n, d) ==
    LET g == GCD(Abs(n), d) IN
    IF n = 0 THEN <<0, 1>> ELSE <<n \div g, d \div g>>

Whole(n) == <<n, 1>>
FAdd(x, y) == Frac(x[1] * y[2] + y[1] * x[2], x[2] * y[2])
FSub(x, y) == Frac(x[1] * y[2] - y[1] * x[2], x[2] * y[2])
FMul(x, y) == Frac(x[1] * y[1], x[2] * y[2])
FDiv(x, y) == Frac(x[1] * y[2], x[2] * y[1])

(* A city_stats document; fields is the set of the optional fields the    *)
(* document has, a field it lacks holds 0 and reads as 0.                 *)
NewCity(normalized_city) ==
    [city_name_lower |-> normalized_city, city_name |-> None, fields |-> {},
     total_reports |-> 0, resolved_reports |-> 0, pending_reports |-> 0,
     total_users |-> 0, engagement_score |-> Whole(0),
     response_rate |-> Whole(0), avg_response_time |-> Whole(0),
     total_score |-> Whole(0), authority_score |-> Whole(0),
     citizen_score |-> Whole(0)]

FindCity(coll, normalized_city) ==
    IF \E i \in 1..Len(coll) : coll[i].city_name_lower = normalized_city
    THEN CHOOSE i \in 1..Len(coll) :
            /\ coll[i].city_name_lower = normalized_city
            /\ \A j \in 1..(i - 1) : coll[j].city_name_lower # normalized_city
    ELSE 0

IncField(doc, f, k) == [doc EXCEPT ![f] = @ + k, !.fields = @ \cup {f}]
SetField(doc, f, v) == [doc EXCEPT ![f] = v, !.fields = @ \cup {f}]

(* an $inc of total_reports alone *)
IncReportCountTotalOnly(doc, resolved) ==
    IncField(doc, "total_reports", 1)

(* the $inc of increment_city_report_count on one document *)
IncReportCount(doc, resolved) ==
    IncField(IncField(doc, "total_reports", 1),
             IF resolved THEN "resolved_reports" ELSE "pending_reports", 1)

(* severity to engagement delta, save_report_if_severe *)
engagement_delta(severity) ==
    IF severity = "Critical" THEN Whole(2)
    ELSE IF severity = "High" THEN Whole(1)
    ELSE IF severity = "Medium" THEN Frac(1, 2)
    ELSE Whole(0)

(* scores with the weights of responsiveness and resolution swapped *)
city_scores_weights_swapped(city) ==
    LET total_reports == city.total_reports
        resolved_reports == city.resolved_reports
        pending_reports == city.pending_reports
        engagement_score == city.engagement_score
        response_rate == city.response_rate
        avg_response_time == city.avg_response_time
        resolution_rate ==
            IF total_reports > 0
            THEN FMul(Frac(resolved_reports, total_reports), Whole(100))
            ELSE Whole(0)
        responsiveness_score ==
            IF avg_response_time[1] > 0
            THEN FDiv(Whole(100), FAdd(Whole(1), avg_response_time))
            ELSE response_rate
        authority_score ==
            FAdd(FMul(responsiveness_score, Frac(4, 10)),
                 FMul(resolution_rate, Frac(6, 10)))
        citizen_score ==
            IF total_reports > 0
            THEN FMul(engagement_score,
                      FSub(Whole(1), FMul(Frac(pending_reports, total_reports),
                                          Frac(1, 2))))
            ELSE engagement_score
        total_score ==
            FAdd(FMul(authority_score, Frac(1, 2)), FMul(citizen_score, Frac(1, 2)))
    IN [total_score |-> total_score, authority_score |-> authority_score,
        citizen_score |-> citizen_score]

(* the three scores calculate_city_score derives from one document *)
city_scores(city) ==
    LET total_reports == city.total_reports
        resolved_reports == city.resolved_reports
        pending_reports == city.pending_reports
        engagement_score == city.engagement_score
        response_rate == city.response_rate
        avg_response_time == city.avg_response_time
        resolution_rate ==
            IF total_reports > 0
            THEN FMul(Frac(resolved_reports, total_reports), Whole(100))
            ELSE Whole(0)
        responsiveness_score ==
            IF avg_response_time[1] > 0
            THEN FDiv(Whole(100), FAdd(Whole(1), avg_response_time))
            ELSE response_rate
        authority_score ==
            FAdd(FMul(responsiveness_score, Frac(6, 10)),
                 FMul(resolution_rate, Frac(4, 10)))
        citizen_score ==
            IF total_reports > 0
            THEN FMul(engagement_score,
                      FSub(Whole(1), FMul(Frac(pending_reports, total_reports),
                                          Frac(1, 2))))
            ELSE engagement_score
        total_score ==
            FAdd(FMul(authority_score, Frac(1, 2)), FMul(citizen_score, Frac(1, 2)))
    IN [total_score |-> total_score, authority_score |-> authority_score,
        citizen_score |-> citizen_score]

----------------------------------------------------------------------------
(* increment_city_report_count(city_name, resolved = False) *)

(* update_one(filter, {"$inc": ...}, upsert=True).  On a document that    *)
(* matches, the $inc is one atomic write.  When none matches, the store   *)
(* inserts a new document; city_stats has no unique index on              *)
(* city_name_lower, so nothing keeps two such updates that both found no  *)
(* match from inserting a document each: the lookup and the insert are    *)
(* two steps.                                                              *)
CiUpdate(p) ==
    /\ pc[p] = "ci_update"
    /\ LET i == FindCity(cities, lower(loc[p].city)) IN
       IF i = 0
       THEN Goto(p, "ci_upsert") /\ UNCHANGED cities
       ELSE /\ cities' = [cities EXCEPT ![i] =
                            IncReportCount(@, loc[p].arg = "resolved")]
            /\ Goto(p, "ci_read")
    /\ UNCHANGED <<loc, nops, restOfCity>>

(* the insert of the upsert *)
CiUpsert(p) ==
    /\ pc[p] = "ci_upsert"
    /\ cities' = Append(cities, IncReportCount(NewCity(lower(loc[p].city)),
                                               loc[p].arg = "resolved"))
    /\ Goto(p, "ci_setname")
    /\ loc' = [loc EXCEPT ![p].idx = Len(cities) + 1]
    /\ UNCHANGED <<nops, restOfCity>>

(* the document was upserted: $set of city_name on its _id *)
CiSetName(p) ==
    /\ pc[p] = "ci_setname"
    /\ cities' = [cities EXCEPT ![loc[p].idx].city_name = loc[p].city]
    /\ Goto(p, "ci_read")
    /\ UNCHANGED <<loc, nops, restOfCity>>

CiRead(p) ==
    /\ pc[p] = "ci_read"
    /\ Return(p)
    /\ UNCHANGED <<cities, nops, restOfCity>>

----------------------------------------------------------------------------
(* update_city_engagement(city_name, engagement_delta), with the          *)
(* upsert_city_stats and the calculate_city_score it calls                *)

UeFind(p) ==
    /\ pc[p] = "ue_find"
    /\ LET i == FindCity(cities, lower(loc[p].city)) IN
       IF i = 0
       THEN /\ Goto(p, "uc_find")
            /\ loc' = [loc EXCEPT ![p].value = engagement_delta(loc[p].severity)]
       ELSE /\ Goto(p, "ue_set")
            /\ loc' = [loc EXCEPT ![p].value =
                         FAdd(cities[i].engagement_score,
                              engagement_delta(loc[p].severity))]
    /\ UNCHANGED <<cities, nops, restOfCity>>

(* $set of engagement_score to the value read plus the delta *)
UeSet(p) ==
    /\ pc[p] = "ue_set"
    /\ LET i == FindCity(cities, lower(loc[p].city)) IN
       cities' = IF i = 0 THEN cities
                 ELSE [cities EXCEPT ![i] =
                         SetField(@, "engagement_score", loc[p].value)]
    /\ Goto(p, "cs_find")
    /\ UNCHANGED <<loc, nops, restOfCity>>

(* upsert_city_stats({city_name, engagement_score: delta}): the lookup *)
UcFind(p) ==
    /\ pc[p] = "uc_find"
    /\ IF FindCity(cities, lower(loc[p].city)) # 0
       THEN Goto(p, "uc_update")
       ELSE Goto(p, "uc_insert")
    /\ UNCHANGED <<cities, loc, nops, restOfCity>>

(* upsert_city_stats: $set of the data on the city that exists by now *)
UcUpdate(p) ==
    /\ pc[p] = "uc_update"
    /\ LET i == FindCity(cities, lower(loc[p].city)) IN
       cities' = IF i = 0 THEN cities
                 ELSE [cities EXCEPT ![i] =
                         [SetField(@, "engagement_score", loc[p].value)
                             EXCEPT !.city_name = loc[p].city]]
    /\ Goto(p, "uc_read")
    /\ UNCHANGED <<loc, nops, restOfCity>>

UcRead(p) ==
    /\ pc[p] = "uc_read"
    /\ Goto(p, "cs_find")
    /\ UNCHANGED <<cities, loc, nops, restOfCity>>

(* upsert_city_stats: insert_one of the new city *)
UcInsert(p) ==
    /\ pc[p] = "uc_insert"
    /\ cities' = Append(cities,
                        [SetField(NewCity(lower(loc[p].city)),
                                  "engagement_score", loc[p].value)
                            EXCEPT !.city_name = loc[p].city])
    /\ Goto(p, "cs_find")
    /\ UNCHANGED <<loc, nops, restOfCity>>

(* calculate_city_score: read the city and compute *)
CsFind(p) ==
    /\ pc[p] = "cs_find"
    /\ LET i == FindCity(cities, lower(loc[p].city)) IN
       IF i = 0 THEN Goto(p, "ue_read") /\ UNCHANGED loc
       ELSE /\ Goto(p, "cs_update")
            /\ loc' = [loc EXCEPT ![p].scores = city_scores(cities[i])]
    /\ UNCHANGED <<cities, nops, restOfCity>>

(* calculate_city_score: $set of the three scores *)
CsUpdate(p) ==
    /\ pc[p] = "cs_update"
    /\ LET i == FindCity(cities, lower(loc[p].city))
           sc == loc[p].scores
       IN cities' = IF i = 0 THEN cities
                    ELSE [cities EXCEPT ![i] =
                            SetField(SetField(SetField(@,
                                "total_score", sc.total_score),
                                "authority_score", sc.authority_score),
                                "citizen_score", sc.citizen_score)]
    /\ Goto(p, "cs_read")
    /\ loc' = [loc EXCEPT ![p].scores = <<>>]
    /\ UNCHANGED <<nops, restOfCity>>

CsRead(p) ==
    /\ pc[p] = "cs_read"
    /\ Goto(p, "ue_read")
    /\ UNCHANGED <<cities, loc, nops, restOfCity>>

(* update_city_engagement: the closing read, and the return *)
UeRead(p) ==
    /\ pc[p] = "ue_read"
    /\ ReturnWith(p, [loc[p] EXCEPT !.value = Whole(0), !.idx = 0])
    /\ UNCHANGED <<cities, nops, restOfCity>>

----------------------------------------------------------------------------
(* get_city_leaderboard() and GET /leaderboard *)

FLess(x, y) == x[1] * y[2] < y[1] * x[2]

(* find().sort("total_score", -1): the documents by descending            *)
(* total_score.  The store promises no order among documents of equal     *)
(* total_score, so every order of them is a possible answer.              *)
SortedByTotalScore(coll) ==
    {order \in [1..Len(coll) -> 1..Len(coll)] :
        /\ \A i, j \in 1..Len(coll) : i # j => order[i] # order[j]
        /\ \A i, j \in 1..Len(coll) :
              i < j => ~FLess(coll[order[i]].total_score,
                              coll[order[j]].total_score)}

(* for rank, city in enumerate(cities, start=1): city["rank"] = rank *)
ranked_cities(coll, order) ==
    [k \in 1..Len(coll) |->
        [city_name_lower |-> coll[order[k]].city_name_lower,
         total_score |-> coll[order[k]].total_score,
         rank |-> k]]

(* ranked_cities[:limit] *)
limited_cities(ranked, limit) ==
    SubSeq(ranked, 1, IF limit < Len(ranked) THEN limit ELSE Len(ranked))

(* the limit query parameter: the smallest value and the default *)
Limits == {1, 10}

StartLeaderboard(p) ==
    /\ pc[p] = "idle"
    /\ nops < MaxOps
    /\ \E limit \in Limits :
          loc' = [loc EXCEPT ![p] = [IdleLoc EXCEPT !.op = "get_city_leaderboard",
                                        !.amount = limit]]
    /\ Goto(p, "gl_find")
    /\ nops' = nops + 1
    /\ UNCHANGED storeVars

GlFind(p) ==
    /\ pc[p] = "gl_find"
    /\ \E order \in SortedByTotalScore(cities) :
          LET ranked == ranked_cities(cities, order) IN
          loc' = [loc EXCEPT ![p].ranked = ranked,
                             ![p].limited = limited_cities(ranked, loc[p].amount),
                             ![p].status = 200]
    /\ Goto(p, "idle")
    /\ UNCHANGED <<nops, storeVars>>

----------------------------------------------------------------------------
(* POST /validate: validate_waste_report and save_report_if_severe *)

SeverityLevel == {"Clean", "Low", "Medium", "High", "Critical"}

(* a storage threshold that lets Low through *)
StoreSeverityLevelsWithLow == {"Low", "Medium", "High", "Critical"}

STORE_SEVERITY_LEVELS == {"Medium", "High", "Critical"}

(* the user_id form fields the model submits: none, the users, and one    *)
(* string that is no ObjectId                                             *)
InvalidIds == {"bad"}
UserIdInputs == {None} \cup Users \cup InvalidIds

(* the severities a verdict carries: the levels, none, and a label the    *)
(* response model does not know                                           *)
Verdicts == SeverityLevel \cup {None, "Unknown"}

MaxSubmits == 1

StartValidate(p) ==
    /\ pc[p] = "idle"
    /\ nops < MaxSubmits
    /\ \E u \in UserIdInputs :
          loc' = [loc EXCEPT ![p] = [IdleLoc EXCEPT !.op = "validate_waste_report",
                                        !.user_id = u]]
    /\ Goto(p, "vw_classify")
    /\ nops' = nops + 1
    /\ UNCHANGED storeVars

(* how the request to the classifier ends: with an answer, with an HTTP   *)
(* status other than 200, or with a timeout or another exception           *)
ClassifierOutcomes == {"answer", "http_error", "timeout"}

(* validate_waste_image: the severity of the dict it returns.  Without an *)
(* answer it returns a dict of severity "Clean" that carries the error in *)
(* additional_data; it raises nothing.                                     *)
validate_waste_image(outcome, verdict) ==
    IF outcome = "answer" THEN verdict ELSE "Clean"

(* validate_waste_image returns its verdict, the response model is built  *)
(* and the severity decides whether anything is stored                    *)
VwClassify(p) ==
    /\ pc[p] = "vw_classify"
    /\ \E outcome \in ClassifierOutcomes, verdict \in Verdicts :
          LET severity == validate_waste_image(outcome, verdict) IN
          IF severity \notin SeverityLevel \cup {None}
          THEN /\ Goto(p, "idle")
               /\ loc' = [loc EXCEPT ![p].severity = severity, ![p].status = 500,
                                     ![p].classifier = outcome]
          ELSE IF severity \notin STORE_SEVERITY_LEVELS
          THEN /\ Goto(p, "idle")
               /\ loc' = [loc EXCEPT ![p].severity = severity, ![p].status = 200,
                                     ![p].classifier = outcome]
          ELSE /\ Goto(p, IF loc[p].user_id # None THEN "vw_user" ELSE "sr_create")
               /\ loc' = [loc EXCEPT ![p].severity = severity,
                                     ![p].classifier = outcome]
    /\ UNCHANGED <<nops, storeVars>>

(* user_crud.get_user_by_id(user_id): ObjectId(user_id) raises InvalidId  *)
(* on a malformed id, which the endpoint turns into a 500                 *)
VwUser(p) ==
    /\ pc[p] = "vw_user"
    /\ IF loc[p].user_id \in InvalidIds
       THEN Finish(p, 500)
       ELSE Goto(p, "sr_create") /\ UNCHANGED loc
    /\ UNCHANGED <<nops, storeVars>>

(* save_report_if_severe: create_waste_report, then the reward steps when *)
(* the report has a user id                                               *)
SrCreate(p) ==
    /\ pc[p] = "sr_create"
    /\ IF loc[p].severity \notin STORE_SEVERITY_LEVELS
       THEN Finish(p, 200) /\ UNCHANGED reports
       ELSE /\ reports' = Append(reports, [severity |-> loc[p].severity,
                                           user_id |-> loc[p].user_id,
                                           status |-> "pending"])
            /\ IF loc[p].user_id # None
               THEN /\ Goto(p, "iu_find")
                    /\ loc' = [loc EXCEPT ![p].report = Len(reports) + 1,
                                          ![p].steps = <<"report">>,
                                          ![p].ret = "add_coins"]
               ELSE /\ Goto(p, "idle")
                    /\ loc' = [loc EXCEPT ![p].report = Len(reports) + 1,
                                          ![p].steps = <<"report">>,
                                          ![p].status = 200]
    /\ UNCHANGED <<wallets, transactions, stats, user_badges, cities, users, nops>>

(* city steps that do not ask whether the user has a city *)
SrUserAnyCity(p) ==
    /\ pc[p] = "sr_user"
    /\ IF loc[p].user_id \in DOMAIN users
       THEN /\ Goto(p, "ci_update")
            /\ loc' = [loc EXCEPT ![p].city = users[loc[p].user_id],
                                  ![p].ret = "engagement"]
       ELSE Goto(p, "vw_stats") /\ UNCHANGED loc
    /\ UNCHANGED <<nops, storeVars>>

(* user = get_user_by_id(user_id); the city steps when the user has a city *)
SrUser(p) ==
    /\ pc[p] = "sr_user"
    /\ IF loc[p].user_id \in DOMAIN users /\ users[loc[p].user_id] # ""
       THEN /\ Goto(p, "ci_update")
            /\ loc' = [loc EXCEPT ![p].city = users[loc[p].user_id],
                                  ![p].ret = "engagement"]
       ELSE Goto(p, "vw_stats") /\ UNCHANGED loc
    /\ UNCHANGED <<nops, storeVars>>

(* get_user_badge_stats and get_user_badges for the response *)
VwStats(p) ==
    /\ pc[p] = "vw_stats"
    /\ Finish(p, 200)
    /\ UNCHANGED <<nops, storeVars>>

(* the store calls of a validation request *)
StoreCalls ==
    {"vw_user", "sr_create", "iu_find", "iu_inc", "iu_insert", "iu_reread",
     "iu_eligible", "ub_insert", "ub_upsert", "ub_upsert_new", "ac_get",
     "ac_create", "ac_update", "ac_insert", "ac_read", "sr_user",
     "ci_update", "ci_upsert",
     "ci_setname", "ci_read", "ue_find", "ue_set", "uc_find", "uc_update",
     "uc_read", "uc_insert", "cs_find", "cs_update", "cs_read", "ue_read",
     "vw_stats"}

(* A store call raises (the store is unreachable): nothing in             *)
(* save_report_if_severe catches it, so it reaches the "except Exception" *)
(* of validate_waste_report, which answers 500.                           *)
StoreFails(p) ==
    /\ loc[p].op = "validate_waste_report"
    /\ pc[p] \in StoreCalls
    /\ Goto(p, "idle")
    /\ loc' = [loc EXCEPT ![p].failed = pc[p], ![p].status = 500]
    /\ UNCHANGED <<nops, storeVars>>

----------------------------------------------------------------------------
(* Calls of the city crud functions on their own *)

(* the city names the calls carry: two spellings of one city, and a city  *)
(* of its own                                                              *)
CityInputs == {"Pune", "PUNE", "Agra"}

(* city operations of a run *)
MaxCityOps == 2

StartCityReport(p) ==
    /\ pc[p] = "idle"
    /\ nops < MaxCityOps
    /\ \E c \in CityInputs, resolved \in BOOLEAN :
          loc' = [loc EXCEPT ![p] = [IdleLoc EXCEPT
                                        !.op = "increment_city_report_count",
                                        !.city = c,
                                        !.arg = IF resolved THEN "resolved"
                                                ELSE "pending"]]
    /\ Goto(p, "ci_update")
    /\ nops' = nops + 1
    /\ UNCHANGED storeVars

(* update_city_engagement(city_name, engagement_delta) with the delta of  *)
(* a severity                                                              *)
StartEngagement(p) ==
    /\ pc[p] = "idle"
    /\ nops < MaxCityOps
    /\ \E c \in CityInputs, severity \in STORE_SEVERITY_LEVELS :
          loc' = [loc EXCEPT ![p] = [IdleLoc EXCEPT
                                        !.op = "update_city_engagement",
                                        !.city = c, !.severity = severity]]
    /\ Goto(p, "ue_find")
    /\ nops' = nops + 1
    /\ UNCHANGED storeVars

----------------------------------------------------------------------------
(* GET /users/{user_id}/profile and GET /users/{user_id}/badge *)

(* a next badge that is offered from the threshold itself on *)
next_badge_from_threshold(total) ==
    IF total <= 10 THEN [next_badge |-> "bronze", reports_needed |-> 10 - total]
    ELSE IF total <= 25 THEN [next_badge |-> "silver", reports_needed |-> 25 - total]
    ELSE IF total <= 50 THEN [next_badge |-> "gold", reports_needed |-> 50 - total]
    ELSE IF total <= 100 THEN [next_badge |-> "platinum", reports_needed |-> 100 - total]
    ELSE IF total <= 250 THEN [next_badge |-> "diamond", reports_needed |-> 250 - total]
    ELSE [next_badge |-> None, reports_needed |-> 0]

(* the if/elif chain that fills next_badge and reports_needed *)
next_badge(total) ==
    IF total < 10 THEN [next_badge |-> "bronze", reports_needed |-> 10 - total]
    ELSE IF total < 25 THEN [next_badge |-> "silver", reports_needed |-> 25 - total]
    ELSE IF total < 50 THEN [next_badge |-> "gold", reports_needed |-> 50 - total]
    ELSE IF total < 100 THEN [next_badge |-> "platinum", reports_needed |-> 100 - total]
    ELSE IF total < 250 THEN [next_badge |-> "diamond", reports_needed |-> 250 - total]
    ELSE [next_badge |-> None, reports_needed |-> 0]

(* ids of no user document *)
UnknownIds == {"u9"}
ProfileEndpoints == {"get_user_profile", "get_user_badge_info"}

(* badge information requests of a run *)
MaxLookups == 1

StartBadgeInfo(p) ==
    /\ pc[p] = "idle"
    /\ nops < MaxLookups
    /\ \E op \in ProfileEndpoints, u \in Users \cup UnknownIds \cup InvalidIds :
          loc' = [loc EXCEPT ![p] = [IdleLoc EXCEPT !.op = op, !.user_id = u]]
    /\ Goto(p, "bi_user")
    /\ nops' = nops + 1
    /\ UNCHANGED storeVars

(* user = get_user_by_id(user_id).  /badge answers 400 to a malformed id  *)
(* and 404 to an unknown one; /profile has only "except Exception", which *)
(* turns both the InvalidId and its own 404 into a 500.                    *)
BiUser(p) ==
    /\ pc[p] = "bi_user"
    /\ IF loc[p].user_id \in InvalidIds
       THEN Finish(p, IF loc[p].op = "get_user_badge_info" THEN 400 ELSE 500)
       ELSE IF loc[p].user_id \notin DOMAIN users
       THEN Finish(p, IF loc[p].op = "get_user_badge_info" THEN 404 ELSE 500)
       ELSE Goto(p, "bi_badges") /\ UNCHANGED loc
    /\ UNCHANGED <<nops, storeVars>>

(* user_badges = get_user_badges(user_id) *)
BiBadges(p) ==
    /\ pc[p] = "bi_badges"
    /\ Goto(p, "bi_stats")
    /\ UNCHANGED <<loc, nops, storeVars>>

(* user_badge_stats = get_user_badge_stats(user_id); total_reports is 0   *)
(* without a document; then the next badge is worked out                  *)
BiStats(p) ==
    /\ pc[p] = "bi_stats"
    /\ LET i == get_user_badge_stats(loc[p].user_id)
           total_reports == IF i = 0 THEN 0 ELSE TotalReportsOf(stats[i])
           info == next_badge(total_reports)
       IN loc' = [loc EXCEPT ![p].total_reports = total_reports,
                             ![p].next_badge = info.next_badge,
                             ![p].reports_needed = info.reports_needed,
                             ![p].status = 200]
    /\ Goto(p, "idle")
    /\ UNCHANGED <<nops, storeVars>>

----------------------------------------------------------------------------
(* Initial states: each user's wallet is absent or has received n credits  *)
(* of 20 coins (one per Critical report), each with its ledger entry.      *)

InitWallets(n) ==
    LET us == {u \in Users : n[u] > 0}
        F[S \in SUBSET us] ==
            IF S = {} THEN <<>>
            ELSE LET u == CHOOSE x \in S : TRUE IN
                 Append(F[S \ {u}],
                        [user_id |-> u, balance |-> 20 * n[u],
                         total_earned |-> 20 * n[u], total_spent |-> 0])
    IN F[us]

InitTransactions(n) ==
    LET us == {u \in Users : n[u] > 0}
        F[S \in SUBSET us] ==
            IF S = {} THEN <<>>
            ELSE LET u == CHOOSE x \in S : TRUE IN
                 F[S \ {u}] \o [k \in 1..n[u] |-> EarnTransaction(u, 20)]
    IN F[us]

InitProcs ==
    /\ pc = [p \in Procs |-> "idle"]
    /\ loc = [p \in Procs |-> IdleLoc]
    /\ nops = 0

InitWallet ==
    /\ \E n \in [Users -> InitCredits] :
          /\ wallets = InitWallets(n)
          /\ transactions = InitTransactions(n)
    /\ stats = <<>>
    /\ user_badges = <<>>
    /\ reports = <<>>
    /\ cities = <<>>
    /\ users = [u \in Users |-> ""]
    /\ InitProcs

NextWallet ==
    \E p \in Procs :
        \/ StartCredit(p)
        \/ AcGet(p)
        \/ AcCreate(p)
        \/ AcUpdate(p)
        \/ AcInsert(p)
        \/ AcRead(p)
        \/ StartRedeem(p)
        \/ RbApi(p)
        \/ RbGet(p)
        \/ RbUpdate(p)
        \/ RbInsert(p)

SpecWallet == InitWallet /\ [][NextWallet]_vars

----------------------------------------------------------------------------
(* Initial states of the badge engine: a user has no stats document or   *)
(* has submitted n reports one after the other, which left the badges of   *)
(* every tier reached.                                                     *)
InitReports == {0, 9, 24}

InitStats(n) ==
    LET us == {u \in Users : n[u] > 0}
        F[S \in SUBSET us] ==
            IF S = {} THEN <<>>
            ELSE LET u == CHOOSE x \in S : TRUE
                     held == eligible_badges(n[u])
                 IN Append(F[S \ {u}],
                        [user_id |-> u, total_reports |-> n[u],
                         badges_earned |-> {held[k].id : k \in 1..Len(held)}])
    IN F[us]

InitUserBadges(n) ==
    LET us == {u \in Users : n[u] > 0}
        F[S \in SUBSET us] ==
            IF S = {} THEN <<>>
            ELSE LET u == CHOOSE x \in S : TRUE
                     held == eligible_badges(n[u])
                 IN F[S \ {u}] \o [k \in 1..Len(held) |-> UserBadge(u, held[k].id)]
    IN F[us]

InitBadge ==
    /\ \E n \in [Users -> InitReports] :
          /\ stats = InitStats(n)
          /\ user_badges = InitUserBadges(n)
    /\ wallets = <<>>
    /\ transactions = <<>>
    /\ reports = <<>>
    /\ cities = <<>>
    /\ users = [u \in Users |-> ""]
    /\ InitProcs

BadgeStep(p) ==
    \/ IuFind(p)
    \/ IuInc(p)
    \/ IuInsert(p)
    \/ IuReread(p)
    \/ IuEligible(p)
    \/ UbInsert(p)
    \/ UbUpsert(p)
    \/ UbUpsertNew(p)
    \/ AbUser(p)
    \/ AbStats(p)
    \/ AbWrite(p)

NextBadge ==
    \E p \in Procs :
        \/ StartReport(p)
        \/ StartAddBadge(p)
        \/ BadgeStep(p)

SpecBadge == InitBadge /\ [][NextBadge]_vars

----------------------------------------------------------------------------
(* Report submissions: every user has submitted 0 or 9 reports, u1 lives  *)
(* in Pune and u2 has no city; no wallet and no city statistics yet.       *)
OrchReports == {0, 9}

InitOrch ==
    /\ \E n \in [Users -> OrchReports] :
          /\ stats = InitStats(n)
          /\ user_badges = InitUserBadges(n)
    /\ wallets = <<>>
    /\ transactions = <<>>
    /\ reports = <<>>
    /\ cities = <<>>
    /\ users = [u \in Users |-> IF u = "u1" THEN "Pune" ELSE ""]
    /\ InitProcs

RewardStep(p) ==
    \/ IuFind(p)
    \/ IuInc(p)
    \/ IuInsert(p)
    \/ IuReread(p)
    \/ IuEligible(p)
    \/ UbInsert(p)
    \/ UbUpsert(p)
    \/ AcGet(p)
    \/ AcCreate(p)
    \/ AcUpdate(p)
    \/ AcInsert(p)
    \/ AcRead(p)
    \/ SrUser(p)
    \/ CiUpdate(p)
    \/ CiUpsert(p)
    \/ CiSetName(p)
    \/ CiRead(p)
    \/ UeFind(p)
    \/ UeSet(p)
    \/ CsFind(p)
    \/ CsUpdate(p)
    \/ CsRead(p)
    \/ UeRead(p)

NextOrch ==
    \E p \in Procs :
        \/ StartValidate(p)
        \/ VwClassify(p)
        \/ VwUser(p)
        \/ SrCreate(p)
        \/ RewardStep(p)
        \/ VwStats(p)

SpecOrch == InitOrch /\ [][NextOrch]_vars

(* Report submissions against a store whose calls may fail *)
NextOrchFail == NextOrch \/ \E p \in Procs : StoreFails(p)

SpecOrchFail == InitOrch /\ [][NextOrchFail]_vars

(* Badge information requests, for users of every report count up to     *)
(* MaxTotalReports and for a user without a stats document                *)
MaxTotalReports == 260

InitBadgeInfo ==
    /\ \E n \in 0..MaxTotalReports :
          LET f == [u \in Users |-> IF u = "u1" THEN n ELSE 0] IN
          /\ stats = InitStats(f)
          /\ user_badges = InitUserBadges(f)
    /\ wallets = <<>>
    /\ transactions = <<>>
    /\ reports = <<>>
    /\ cities = <<>>
    /\ users = [u \in Users |-> ""]
    /\ InitProcs

NextBadgeInfo ==
    \E p \in Procs :
        \/ StartBadgeInfo(p)
        \/ BiUser(p)
        \/ BiBadges(p)
        \/ BiStats(p)

SpecBadgeInfo == InitBadgeInfo /\ [][NextBadgeInfo]_vars

(* Leaderboard requests over up to MaxCities cities.  A city has no       *)
(* reports and an engagement score e, for which calculate_city_score      *)
(* stores total_score = e / 2.                                             *)
MaxCities == 3
CityNames == <<"pune", "agra", "delhi", "surat", "kochi">>
EngagementInputs == {150, 180}

ScoredCity(normalized_city, engagement) ==
    LET doc == SetField(NewCity(normalized_city), "engagement_score",
                        Whole(engagement))
        sc == city_scores(doc)
    IN SetField(SetField(SetField(doc,
           "total_score", sc.total_score),
           "authority_score", sc.authority_score),
           "citizen_score", sc.citizen_score)

InitLeaderboard ==
    /\ \E n \in 1..MaxCities :
          \E e \in [1..n -> EngagementInputs] :
              cities = [i \in 1..n |-> ScoredCity(CityNames[i], e[i])]
    /\ wallets = <<>>
    /\ transactions = <<>>
    /\ stats = <<>>
    /\ user_badges = <<>>
    /\ reports = <<>>
    /\ users = [u \in Users |-> ""]
    /\ InitProcs

NextLeaderboard ==
    \E p \in Procs :
        \/ StartLeaderboard(p)
        \/ GlFind(p)

SpecLeaderboard == InitLeaderboard /\ [][NextLeaderboard]_vars

(* City crud calls on a store that holds the statistics of pune, with     *)
(* counters of every combination below, or no city at all                  *)
ReportCounters ==
    {[total |-> 0, resolved |-> 0, pending |-> 0],
     [total |-> 100, resolved |-> 60, pending |-> 10],
     [total |-> 4, resolved |-> 1, pending |-> 3]}
EngagementCounters == {0, 18}
ResponseTimes == {0, 4}
ResponseRates == {0, 80}

CountedCity(normalized_city, c, engagement, time, rate) ==
    LET doc == [NewCity(normalized_city) EXCEPT
                   !.total_reports = c.total,
                   !.resolved_reports = c.resolved,
                   !.pending_reports = c.pending,
                   !.engagement_score = Whole(engagement),
                   !.avg_response_time = Whole(time),
                   !.response_rate = Whole(rate),
                   !.city_name = "Pune",
                   !.fields = {"total_reports", "resolved_reports",
                               "pending_reports", "engagement_score",
                               "avg_response_time", "response_rate"}]
        sc == city_scores(doc)
    IN SetField(SetField(SetField(doc,
           "total_score", sc.total_score),
           "authority_score", sc.authority_score),
           "citizen_score", sc.citizen_score)

InitCityScore ==
    /\ \/ cities = <<>>
       \/ \E c \in ReportCounters, e \in EngagementCounters,
             t \in ResponseTimes, r \in ResponseRates :
             cities = << CountedCity("pune", c, e, t, r) >>
    /\ wallets = <<>>
    /\ transactions = <<>>
    /\ stats = <<>>
    /\ user_badges = <<>>
    /\ reports = <<>>
    /\ users = [u \in Users |-> ""]
    /\ InitProcs

NextCityScore ==
    \E p \in Procs :
        \/ StartCityReport(p)
        \/ StartEngagement(p)
        \/ CiUpdate(p)
        \/ CiUpsert(p)
        \/ CiSetName(p)
        \/ CiRead(p)
        \/ UeFind(p)
        \/ UeSet(p)
        \/ UcFind(p)
        \/ UcUpdate(p)
        \/ UcRead(p)
        \/ UcInsert(p)
        \/ CsFind(p)
        \/ CsUpdate(p)
        \/ CsRead(p)
        \/ UeRead(p)

SpecCityScore == InitCityScore /\ [][NextCityScore]_vars

(* City crud calls on a store that earlier increment_city_report_count    *)
(* calls have left: no city, or pune counted with so many resolved and     *)
(* pending reports                                                         *)
ResolvedCounters == {0, 1}
PendingCounters == {0, 3}

InitCityCount ==
    /\ \/ cities = <<>>
       \/ \E r \in ResolvedCounters, n \in PendingCounters,
             e \in EngagementCounters :
             cities = << CountedCity("pune",
                             [total |-> r + n, resolved |-> r, pending |-> n],
                             e, 0, 0) >>
    /\ wallets = <<>>
    /\ transactions = <<>>
    /\ stats = <<>>
    /\ user_badges = <<>>
    /\ reports = <<>>
    /\ users = [u \in Users |-> ""]
    /\ InitProcs

SpecCityCount == InitCityCount /\ [][NextCityScore]_vars

(* Calls of add_coins with positive and non-positive amounts *)
NextCreditAny ==
    \E p \in Procs :
        \/ StartCreditAny(p)
        \/ AcGet(p)
        \/ AcCreate(p)
        \/ AcUpdate(p)
        \/ AcInsert(p)
        \/ AcRead(p)

SpecCreditAny == InitWallet /\ [][NextCreditAny]_vars

(* Two or more redeem requests of one user for benefits of one price C,    *)
(* all in flight at once, on a wallet of balance B with C <= B < 2C.       *)
RaceCredits == {20, 25, 30, 35, 40}

InitRedeemRace ==
    /\ \E u \in Users, k \in RaceCredits, b \in BenefitIds :
          /\ coins_required(b) <= 20 * k
          /\ 20 * k < 2 * coins_required(b)
          /\ wallets = << [user_id |-> u, balance |-> 20 * k,
                           total_earned |-> 20 * k, total_spent |-> 0] >>
          /\ transactions = [i \in 1..k |-> EarnTransaction(u, 20)]
          /\ loc = [p \in Procs |-> [IdleLoc EXCEPT !.op = "redeem_benefit",
                                        !.user_id = u, !.arg = b]]
    /\ pc = [p \in Procs |-> "rb_api"]
    /\ nops = NumProcs
    /\ stats = <<>>
    /\ user_badges = <<>>
    /\ reports = <<>>
    /\ cities = <<>>
    /\ users = [u \in Users |-> ""]

NextRedeemRace ==
    \E p \in Procs :
        \/ RbApi(p)
        \/ RbGet(p)
        \/ RbUpdate(p)
        \/ RbInsert(p)

SpecRedeemRace == InitRedeemRace /\ [][NextRedeemRace]_vars

(* One credit and one redeem of the same user in flight at once, on a     *)
(* wallet whose balance B covers the price; the credit is the reward of   *)
(* a Medium or a High report.                                              *)
RaceAmounts == {10, 15}

InitCreditRedeemRace ==
    /\ \E u \in Users, k \in RaceCredits, b \in BenefitIds, a \in RaceAmounts :
          /\ coins_required(b) <= 20 * k
          /\ wallets = << [user_id |-> u, balance |-> 20 * k,
                           total_earned |-> 20 * k, total_spent |-> 0] >>
          /\ transactions = [i \in 1..k |-> EarnTransaction(u, 20)]
          /\ loc = [p \in Procs |->
                      IF p = 1
                      THEN [IdleLoc EXCEPT !.op = "add_coins", !.user_id = u,
                                           !.amount = a]
                      ELSE IF p = 2
                      THEN [IdleLoc EXCEPT !.op = "redeem_benefit",
                                           !.user_id = u, !.arg = b]
                      ELSE IdleLoc]
    /\ pc = [p \in Procs |-> IF p = 1 THEN "ac_get"
                             ELSE IF p = 2 THEN "rb_api" ELSE "idle"]
    /\ nops = NumProcs
    /\ stats = <<>>
    /\ user_badges = <<>>
    /\ reports = <<>>
    /\ cities = <<>>
    /\ users = [u \in Users |-> ""]

NextCreditRedeemRace ==
    \E p \in Procs :
        \/ AcGet(p)
        \/ AcUpdate(p)
        \/ AcInsert(p)
        \/ AcRead(p)
        \/ RbApi(p)
        \/ RbGet(p)
        \/ RbUpdate(p)
        \/ RbInsert(p)

SpecCreditRedeemRace == InitCreditRedeemRace /\ [][NextCreditRedeemRace]_vars

(* record_report calls only *)
NextReport ==
    \E p \in Procs :
        \/ StartReport(p)
        \/ IuFind(p)
        \/ IuInc(p)
        \/ IuInsert(p)
        \/ IuReread(p)
        \/ IuEligible(p)
        \/ UbInsert(p)
        \/ UbUpsert(p)

SpecReport == InitBadge /\ [][NextReport]_vars

(* Badge requests handled one at a time: a request starts only when no    *)
(* other is in progress.                                                   *)
AllIdle == \A q \in Procs : pc[q] = "idle"

NextBadgeSeq ==
    \E p \in Procs :
        \/ AllIdle /\ StartReport(p)
        \/ AllIdle /\ StartAddBadge(p)
        \/ BadgeStep(p)

SpecBadgeSeq == InitBadge /\ [][NextBadgeSeq]_vars

(* record_report calls only, one at a time *)
NextReportSeq ==
    \E p \in Procs :
        \/ AllIdle /\ StartReport(p)
        \/ IuFind(p)
        \/ IuInc(p)
        \/ IuInsert(p)
        \/ IuReread(p)
        \/ IuEligible(p)
        \/ UbInsert(p)
        \/ UbUpsert(p)

SpecReportSeq == InitBadge /\ [][NextReportSeq]_vars

(* Badge steps run one at a time, each possibly run again by its caller *)
NextReportRetry ==
    \E p \in Procs :
        \/ AllIdle /\ StartReport(p)
        \/ AllIdle /\ StartRetry(p)
        \/ IuFind(p)
        \/ IuInc(p)
        \/ IuInsert(p)
        \/ IuReread(p)
        \/ IuEligible(p)
        \/ UbInsert(p)
        \/ UbUpsert(p)

SpecReportRetry == InitBadge /\ [][NextReportRetry]_vars

----------------------------------------------------------------------------
(* PUT /users/{user_id}/city: update_user_city, with the                  *)
(* increment_city_users calls it makes                                     *)

(* update-user-city requests of a run *)
MaxMoves == 2

StartUpdateCity(p) ==
    /\ pc[p] = "idle"
    /\ nops < MaxMoves
    /\ \E u \in Users \cup UnknownIds, c \in CityInputs :
          loc' = [loc EXCEPT ![p] = [IdleLoc EXCEPT !.op = "update_user_city",
                                        !.user_id = u, !.arg = c]]
    /\ Goto(p, "uu_user")
    /\ nops' = nops + 1
    /\ UNCHANGED storeVars

(* user = get_user_by_id(user_id); old_city = user.get("city") *)
UuUser(p) ==
    /\ pc[p] = "uu_user"
    /\ IF loc[p].user_id \notin DOMAIN users
       THEN Finish(p, 404)
       ELSE /\ Goto(p, "uu_update")
            /\ loc' = [loc EXCEPT ![p].value = users[loc[p].user_id]]
    /\ UNCHANGED <<nops, storeVars>>

(* update_user, then the first increment_city_users call: on the old city *)
(* with -1 if there is one and it is not the new city as written, on the  *)
(* new city otherwise                                                      *)
UuUpdate(p) ==
    /\ pc[p] = "uu_update"
    /\ users' = [users EXCEPT ![loc[p].user_id] = loc[p].arg]
    /\ Goto(p, "cu_update")
    /\ LET old_city == loc[p].value
           new_city == loc[p].arg
       IN loc' = [loc EXCEPT ![p] =
                    IF old_city # "" /\ old_city # new_city
                    THEN [@ EXCEPT !.city = old_city, !.amount = -1,
                                   !.ret = "new_city"]
                    ELSE [@ EXCEPT !.city = new_city, !.amount = 1]]
    /\ UNCHANGED <<wallets, transactions, stats, user_badges, reports, cities,
                   nops>>

(* increment_city_users: update_one(filter, {"$inc": {"total_users":      *)
(* delta}}, upsert=True), an atomic $inc on the document that matches     *)
CuUpdate(p) ==
    /\ pc[p] = "cu_update"
    /\ LET i == FindCity(cities, lower(loc[p].city)) IN
       IF i = 0
       THEN Goto(p, "cu_upsert") /\ UNCHANGED cities
       ELSE /\ cities' = [cities EXCEPT ![i] =
                            IncField(@, "total_users", loc[p].amount)]
            /\ Goto(p, "cu_read")
    /\ UNCHANGED <<loc, nops, restOfCity>>

(* the insert of the upsert *)
CuUpsert(p) ==
    /\ pc[p] = "cu_upsert"
    /\ cities' = Append(cities, IncField(NewCity(lower(loc[p].city)),
                                         "total_users", loc[p].amount))
    /\ Goto(p, "cu_setname")
    /\ loc' = [loc EXCEPT ![p].idx = Len(cities) + 1]
    /\ UNCHANGED <<nops, restOfCity>>

CuSetName(p) ==
    /\ pc[p] = "cu_setname"
    /\ cities' = [cities EXCEPT ![loc[p].idx].city_name = loc[p].city]
    /\ Goto(p, "cu_read")
    /\ UNCHANGED <<loc, nops, restOfCity>>

(* the closing read; update_user_city goes on to the new city after the   *)
(* old one, and answers after the new one                                  *)
CuRead(p) ==
    /\ pc[p] = "cu_read"
    /\ IF loc[p].ret = "new_city"
       THEN /\ Goto(p, "cu_update")
            /\ loc' = [loc EXCEPT ![p].city = loc[p].arg, ![p].amount = 1,
                                  ![p].ret = None, ![p].idx = 0]
       ELSE /\ pc' = [pc EXCEPT ![p] = "idle"]
            /\ loc' = [loc EXCEPT ![p].status = 200, ![p].idx = 0]
    /\ UNCHANGED <<cities, nops, restOfCity>>

(* Users who live in Pune or have no city yet, the statistics of pune     *)
(* counting those who live there; requests are handled one at a time.     *)
InitUserCity ==
    /\ \E S \in SUBSET Users :
          /\ users = [u \in Users |-> IF u \in S THEN "Pune" ELSE ""]
          /\ cities = IF S = {} THEN <<>>
                      ELSE << [IncField(NewCity("pune"), "total_users",
                                        Cardinality(S))
                                  EXCEPT !.city_name = "Pune"] >>
    /\ wallets = <<>>
    /\ transactions = <<>>
    /\ stats = <<>>
    /\ user_badges = <<>>
    /\ reports = <<>>
    /\ InitProcs

NextUserCity ==
    \E p \in Procs :
        \/ AllIdle /\ StartUpdateCity(p)
        \/ UuUser(p)
        \/ UuUpdate(p)
        \/ CuUpdate(p)
        \/ CuUpsert(p)
        \/ CuSetName(p)
        \/ CuRead(p)

SpecUserCity == InitUserCity /\ [][NextUserCity]_vars

----------------------------------------------------------------------------
(* Readings of the state the properties are stated on *)

(* sum of the amounts of a user's ledger entries of one type *)
LedgerSum(user_id, type) ==
    LET idx == {i \in 1..Len(transactions) :
                   /\ transactions[i].user_id = user_id
                   /\ transactions[i].type = type}
        F[i \in 0..Len(transactions)] ==
            IF i = 0 THEN 0
            ELSE F[i - 1] + (IF i \in idx THEN transactions[i].amount ELSE 0)
    IN F[Len(transactions)]

TotalReports(user_id) ==
    LET i == FindOne(stats, user_id) IN
    IF i = 0 THEN 0 ELSE TotalReportsOf(stats[i])

BadgesEarned(user_id) ==
    UNION {stats[i].badges_earned :
             i \in {j \in 1..Len(stats) : stats[j].user_id = user_id}}

UserBadgeCount(user_id, badge_id) ==
    Cardinality({i \in 1..Len(user_badges) :
                    /\ user_badges[i].user_id = user_id
                    /\ user_badges[i].badge_id = badge_id})

----------------------------------------------------------------------------
(* C1: in every reachable state, also between the steps of a credit or a   *)
(* redeem and under every interleaving of them, every wallet has           *)
(* balance = total_earned - total_spent.                                   *)
C1_BalanceIsEarnedMinusSpent ==
    \A i \in 1..Len(wallets) :
        wallets[i].balance = wallets[i].total_earned - wallets[i].total_spent

(* a wallet that has been credited and debited while a request is between *)
(* its wallet update and its ledger insert                                 *)
C1_Witness ==
    /\ \E i \in 1..Len(wallets) :
          wallets[i].total_spent > 0 /\ wallets[i].total_earned % 20 # 0
    /\ \E p \in Procs : pc[p] \in {"ac_insert", "rb_insert"}

(* C2: no wallet balance is ever negative, also when several redeems of   *)
(* one user pass their balance checks before any of them debits.          *)
C2_BalanceNeverNegative ==
    \A i \in 1..Len(wallets) : wallets[i].balance >= 0

(* C3: of two concurrent redeems of price C on a balance B, C <= B < 2C,  *)
(* exactly one succeeds, leaving one spend entry and balance B - C, and   *)
(* the other fails for insufficient balance.                               *)
C3_ExactlyOneRedeemSucceeds ==
    AllIdle =>
        /\ Cardinality({p \in Procs : loc[p].status = 200}) = 1
        /\ \A p \in Procs : loc[p].status # 200 => loc[p].status \in {400, 500}
        /\ Cardinality({i \in 1..Len(transactions) :
                           transactions[i].type = "spend"}) = 1
        /\ \A p \in Procs :
              wallets[1].balance = wallets[1].total_earned - coins_required(loc[p].arg)

(* C4: at most one UserBadge record per (user, tier), also when two       *)
(* record_report calls of one user see the same threshold reached before  *)
(* either has inserted the badge.                                          *)
C4_AtMostOneUserBadgePerTier ==
    \A u \in Users, b \in BadgeIds : UserBadgeCount(u, b) <= 1

(* C5: over any sequence of record_report and manual badge assignments,   *)
(* no step lowers a user's total_reports or removes a badge from          *)
(* badges_earned.                                                          *)
C5_Monotonic ==
    [][\A u \in Users :
          /\ TotalReports(u)' >= TotalReports(u)
          /\ BadgesEarned(u) \subseteq BadgesEarned(u)']_vars

(* a manual assignment has completed on a user who already had more       *)
(* reports than the tier asks for, after a record_report                  *)
C5_Witness ==
    \E p \in Procs :
        /\ pc[p] = "idle"
        /\ loc[p].op = "add_badge"
        /\ loc[p].status = 200
        /\ TotalReports(loc[p].user_id) > BadgeById(loc[p].badge).required_reports
        /\ TotalReports(loc[p].user_id) \notin InitReports

(* C6: in every reachable state, also between the steps of a manual       *)
(* assignment, every badge of badges_earned has a threshold at or below   *)
(* total_reports.                                                          *)
C6_BadgesWithinThreshold ==
    \A i \in 1..Len(stats) :
        \A b \in stats[i].badges_earned :
            BadgeById(b).required_reports <= TotalReportsOf(stats[i])

(* C7: a credit leaves one earn entry and a successful redeem one spend   *)
(* entry of the amount applied to the wallet: whenever no request is in   *)
(* progress, every user's earn entries sum to total_earned, the spend     *)
(* entries to total_spent, and the balance is their difference.           *)
C7_LedgerReconciles ==
    AllIdle =>
        \A u \in Users :
            LET i == get_wallet_by_user_id(u)
                earned == LedgerSum(u, "earn")
                spent == LedgerSum(u, "spend")
            IN IF i = 0 THEN earned = 0 /\ spent = 0
               ELSE /\ wallets[i].total_earned = earned
                    /\ wallets[i].total_spent = spent
                    /\ wallets[i].balance = earned - spent

(* at rest after a credit and a successful redeem of the same user *)
C7_Witness ==
    /\ AllIdle
    /\ \E u \in Users :
          /\ LedgerSum(u, "spend") > 0
          /\ LedgerSum(u, "earn") % 20 # 0

C9_OnlySevereReportsStored ==
    /\ [](\A i \in 1..Len(reports) :
             reports[i].severity \in {"Medium", "High", "Critical"})
    /\ [](\A p \in Procs :
             (loc[p].op = "validate_waste_report"
                 /\ pc[p] \notin {"idle", "vw_classify"})
             => loc[p].severity \in {"Medium", "High", "Critical"})
    /\ [][\A p \in Procs :
             ( /\ pc[p] = "vw_classify"
               /\ pc'[p] # "vw_classify"
               /\ loc'[p].severity \in {"Clean", "Low", None} )
             => (pc'[p] = "idle" /\ UNCHANGED storeVars)]_vars

(* a Low, Clean or severity-less submission has been answered and the     *)
(* store holds no report                                                   *)
C9_Witness ==
    \E p \in Procs :
        /\ pc[p] = "idle"
        /\ loc[p].op = "validate_waste_report"
        /\ loc[p].severity \in {"Clean", "Low", None}
        /\ loc[p].status = 200
        /\ reports = <<>>

(* the store calls of the reward steps, and those of the badge step *)
BadgeCalls ==
    {"iu_find", "iu_inc", "iu_insert", "iu_reread", "iu_eligible",
     "ub_insert", "ub_upsert", "ub_upsert_new"}

RewardCalls == StoreCalls \ {"vw_user", "sr_create", "vw_stats"}

(* C10: once the report is stored, a reward step that fails does not fail *)
(* the request and does not keep the later steps from running: the        *)
(* answer is a success, and after a failed badge step the coins are       *)
(* credited all the same.                                                  *)
C10_RewardFailureTolerated ==
    \A p \in Procs :
        ( /\ pc[p] = "idle"
          /\ loc[p].op = "validate_waste_report"
          /\ loc[p].report # 0
          /\ loc[p].failed \in RewardCalls )
        => /\ loc[p].status = 200
           /\ loc[p].failed \in BadgeCalls =>
                 \E k \in 1..Len(loc[p].steps) : loc[p].steps[k] = "coins"

(* the stored reports of a user with a severity, and the user's earn      *)
(* entries of an amount                                                    *)
ReportsOf(user_id, severity) ==
    {i \in 1..Len(reports) :
        reports[i].user_id = user_id /\ reports[i].severity = severity}

EarnEntriesOf(user_id, amount) ==
    {j \in 1..Len(transactions) :
        /\ transactions[j].user_id = user_id
        /\ transactions[j].type = "earn"
        /\ transactions[j].amount = amount}

Tiers == [bronze |-> 10, silver |-> 25, gold |-> 50, platinum |-> 100,
          diamond |-> 250]

(* C12: a badge information answer for a user of total_reports n names    *)
(* the tier of the lowest threshold strictly above n and the difference   *)
(* threshold - n, and names no tier and 0 when n >= 250; n = 9 gives      *)
(* bronze and 1.                                                           *)
C12_NextBadge ==
    \A p \in Procs :
        ( /\ pc[p] = "idle"
          /\ loc[p].op \in {"get_user_profile", "get_user_badge_info"}
          /\ loc[p].status = 200 )
        => LET n == TotalReports(loc[p].user_id)
               above == {t \in DOMAIN Tiers : Tiers[t] > n}
           IN /\ n >= 0
              /\ loc[p].total_reports = n
              /\ IF above = {}
                 THEN n >= 250 /\ loc[p].next_badge = None
                               /\ loc[p].reports_needed = 0
                 ELSE LET t == CHOOSE x \in above :
                                  \A y \in above : Tiers[x] <= Tiers[y]
                      IN /\ loc[p].next_badge = t
                         /\ loc[p].reports_needed = Tiers[t] - n
              /\ n = 9 => loc[p].next_badge = "bronze" /\ loc[p].reports_needed = 1

(* answers at a threshold: 10 reports with silver next, 15 to go, and 250 *)
(* reports or more with no tier left                                      *)
C12_Witness ==
    \E p \in Procs :
        /\ pc[p] = "idle"
        /\ loc[p].op = "get_user_badge_info"
        /\ loc[p].status = 200
        /\ \/ loc[p].total_reports = 10 /\ loc[p].next_badge = "silver"
                                        /\ loc[p].reports_needed = 15
           \/ loc[p].total_reports >= 250 /\ loc[p].next_badge = None

(* C13: a manual assignment of a tier the user already holds adds no      *)
(* UserBadge record: the user who had exactly one record of the tier      *)
(* when assign_user_badge was called has exactly one after it.            *)
C13_NoDuplicateOnManualAssign ==
    [][\A p \in Procs :
          ( /\ pc[p] = "ub_insert"
            /\ loc[p].op = "add_badge"
            /\ pc'[p] # "ub_insert"
            /\ UserBadgeCount(loc[p].user_id, loc[p].badge) = 1 )
          => UserBadgeCount(loc[p].user_id, loc[p].badge)' = 1]_vars

(* C14: a manual assignment of tier T, run on its own, leaves the user's  *)
(* total_reports at the larger of its value before the call and the       *)
(* threshold of T, whether or not the user had a stats document: the      *)
(* step that completes the call writes that value, and no earlier step    *)
(* of the call changes the count.                                          *)
C14_BackfillToThreshold ==
    [][\A p \in Procs :
          (loc[p].op = "add_badge" /\ pc[p] # "idle" /\ pc'[p] # pc[p])
          => LET u == loc[p].user_id
                 was == TotalReports(u)
                 now == TotalReports(u)'
             IN IF pc'[p] = "idle" /\ loc'[p].status = 200
                THEN now = IF was >= Tiers[loc[p].arg] THEN was
                           ELSE Tiers[loc[p].arg]
                ELSE now = was]_vars

(* a gold assignment has completed for a user who had fewer than 50      *)
(* reports, and one for a user who has more than the tier asks for        *)
C14_Witness ==
    /\ \E p \in Procs :
          /\ pc[p] = "idle" /\ loc[p].op = "add_badge" /\ loc[p].status = 200
          /\ loc[p].arg = "gold"
          /\ TotalReports(loc[p].user_id) = 50
    /\ \E p \in Procs :
          /\ pc[p] = "idle" /\ loc[p].op = "add_badge" /\ loc[p].status = 200
          /\ loc[p].arg = "bronze"
          /\ TotalReports(loc[p].user_id) = 24

(* the number of distinct total_score values above a score, plus one *)
DenseRank(score) ==
    1 + Cardinality({cities[i].total_score : i \in
                        {j \in 1..Len(cities) :
                            FLess(score, cities[j].total_score)}})

(* the place of a city in the collection *)
InputOrder(normalized_city) == FindCity(cities, normalized_city)

(* C15: a leaderboard answer lists every city once, by descending         *)
(* total_score, each with its dense rank (cities of equal total_score     *)
(* share a rank, the next lower score has the next integer), cities of    *)
(* equal score in the order of the collection; and two answers over the   *)
(* same cities carry the same ranks.                                       *)
C15_LeaderboardDenseRank ==
    /\ \A p \in Procs :
          (pc[p] = "idle" /\ loc[p].op = "get_city_leaderboard"
              /\ loc[p].status = 200)
          => LET r == loc[p].ranked IN
             /\ Len(r) = Len(cities)
             /\ \A i \in 1..Len(cities) :
                   \E k \in 1..Len(r) :
                       r[k].city_name_lower = cities[i].city_name_lower
             /\ \A k \in 1..Len(r) :
                   /\ r[k].rank = DenseRank(r[k].total_score)
                   /\ \A m \in 1..Len(r) :
                         k < m =>
                            /\ ~FLess(r[k].total_score, r[m].total_score)
                            /\ r[k].total_score = r[m].total_score =>
                                  InputOrder(r[k].city_name_lower)
                                      < InputOrder(r[m].city_name_lower)
    /\ \A p, q \in Procs :
          ( /\ pc[p] = "idle" /\ loc[p].op = "get_city_leaderboard"
            /\ pc[q] = "idle" /\ loc[q].op = "get_city_leaderboard"
            /\ loc[p].status = 200 /\ loc[q].status = 200 )
          => loc[p].ranked = loc[q].ranked

(* the scores of a city_stats document as the scoring rules state them *)
ExpectedScores(city) ==
    LET resolution_rate ==
            IF city.total_reports = 0 THEN Whole(0)
            ELSE Frac(100 * city.resolved_reports, city.total_reports)
        responsiveness ==
            IF city.avg_response_time[1] > 0
            THEN FDiv(Whole(100), FAdd(Whole(1), city.avg_response_time))
            ELSE city.response_rate
        authority ==
            FAdd(FMul(responsiveness, Frac(3, 5)), FMul(resolution_rate, Frac(2, 5)))
        factor ==
            IF city.total_reports = 0 THEN Whole(1)
            ELSE FSub(Whole(1), Frac(city.pending_reports, 2 * city.total_reports))
        citizen == FMul(city.engagement_score, factor)
    IN [authority_score |-> authority, citizen_score |-> citizen,
        total_score |-> FMul(FAdd(authority, citizen), Frac(1, 2))]

(* C16: calculate_city_score derives from the counters of the city it     *)
(* reads authority_score = 0.6 * responsiveness + 0.4 * resolution_rate,  *)
(* citizen_score = engagement_score * (1 - 0.5 * pending / total) and     *)
(* total_score = half their sum, with the fallbacks for no reports and    *)
(* no response time, and stores exactly these three values; the counters  *)
(* 100, 60, 10, 20, 0, 80 give 72, 19 and 45.5.                            *)
C16_ScoreFormula ==
    [][\A p \in Procs :
          LET i == FindCity(cities, lower(loc[p].city)) IN
          /\ (pc[p] = "cs_find" /\ pc'[p] = "cs_update")
             => /\ loc'[p].scores = ExpectedScores(cities[i])
                /\ ( /\ cities[i].total_reports = 100
                     /\ cities[i].resolved_reports = 60
                     /\ cities[i].pending_reports = 10
                     /\ cities[i].engagement_score = <<20, 1>>
                     /\ cities[i].avg_response_time = <<0, 1>>
                     /\ cities[i].response_rate = <<80, 1>> )
                   => /\ loc'[p].scores.authority_score = <<72, 1>>
                      /\ loc'[p].scores.citizen_score = <<19, 1>>
                      /\ loc'[p].scores.total_score = <<91, 2>>
          /\ (pc[p] = "cs_update" /\ pc'[p] = "cs_read" /\ i # 0)
             => /\ cities'[i].authority_score = loc[p].scores.authority_score
                /\ cities'[i].citizen_score = loc[p].scores.citizen_score
                /\ cities'[i].total_score = loc[p].scores.total_score]_vars

(* an engagement update has brought the city of 100 reports to            *)
(* engagement 20 and its scores have been stored                           *)
C16_Witness ==
    /\ AllIdle
    /\ \E p \in Procs : loc[p].op = "update_city_engagement" /\ loc[p].status = 200
    /\ \E i \in 1..Len(cities) :
          /\ cities[i].total_reports = 100
          /\ cities[i].engagement_score = <<20, 1>>
          /\ cities[i].response_rate = <<80, 1>>
          /\ cities[i].avg_response_time = <<0, 1>>
          /\ cities[i].total_score = <<91, 2>>

(* the UserBadge records of a user *)
UserBadgesOf(user_id) ==
    SelectSeq(user_badges, LAMBDA b : b.user_id = user_id)

(* C17: the badge step run again for a report that is already recorded    *)
(* changes nothing: no step of the second run changes the user's          *)
(* total_reports, badges_earned or UserBadge records.                      *)
C17_RetryIdempotent ==
    [][\A p \in Procs :
          (loc[p].op = "record_report" /\ loc[p].arg = "retry" /\ pc[p] # "idle")
          => /\ TotalReports(loc[p].user_id)' = TotalReports(loc[p].user_id)
             /\ BadgesEarned(loc[p].user_id)' = BadgesEarned(loc[p].user_id)
             /\ UserBadgesOf(loc[p].user_id)' = UserBadgesOf(loc[p].user_id)]_vars

C19_NonPositiveCreditRejected ==
    [][\A p \in Procs :
          ( /\ loc[p].op = "add_coins"
            /\ loc[p].amount <= 0
            /\ pc[p] # "idle"
            /\ pc'[p] # pc[p] )
          => /\ wallets' = wallets
             /\ transactions' = transactions
             /\ pc'[p] = "idle" => loc'[p].status >= 400]_vars

(* the UserBadgeStats documents of a user *)
StatsDocsOf(user_id) == {i \in 1..Len(stats) : stats[i].user_id = user_id}

(* C20: under every interleaving of record_report calls no user has more  *)
(* than one UserBadgeStats document and every call adds exactly 1 to the  *)
(* user's total_reports in the step that writes the count, so that after  *)
(* N completed calls the count has grown by N.                             *)
C20_NoLostIncrement ==
    /\ [](\A u \in Users : Cardinality(StatsDocsOf(u)) <= 1)
    /\ [][\A p \in Procs :
             ( /\ loc[p].op = "record_report"
               /\ pc[p] \in {"iu_inc", "iu_insert"}
               /\ pc'[p] # pc[p] )
             => TotalReports(loc[p].user_id)' = TotalReports(loc[p].user_id) + 1]_vars

(* C22: a credit of a and a redeem of price c of one user that run at the *)
(* same time on a wallet of balance B >= c and both succeed leave         *)
(* balance B + a - c, total_earned B + a and total_spent c, in every      *)
(* interleaving.  B is the sum of the 20-coin entries the wallet started  *)
(* with.                                                                   *)
C22_NoLostWalletUpdate ==
    \A p, q \in Procs :
        ( /\ AllIdle
          /\ loc[p].op = "add_coins" /\ loc[p].status = 200
          /\ loc[q].op = "redeem_benefit" /\ loc[q].status = 200 )
        => LET B == 20 * Cardinality({j \in 1..Len(transactions) :
                                         transactions[j].amount = 20})
               a == loc[p].amount
               c == coins_required(loc[q].arg)
           IN /\ Len(wallets) = 1
              /\ wallets[1].balance = B + a - c
              /\ wallets[1].total_earned = B + a
              /\ wallets[1].total_spent = c

(* both have succeeded and they overlapped: the redeem read the balance   *)
(* before the credit wrote it, and wrote its ledger entry after the       *)
(* credit's                                                                *)
C22_Witness ==
    /\ AllIdle
    /\ \E p, q \in Procs :
          /\ loc[p].op = "add_coins" /\ loc[p].status = 200
          /\ loc[q].op = "redeem_benefit" /\ loc[q].status = 200
          /\ loc[q].balance = wallets[1].total_earned - loc[p].amount
          /\ transactions[Len(transactions)].type = "spend"

(* C21: no user ever has more than one DigitalWallet document, also when  *)
(* two credits of a user without a wallet both look the wallet up before  *)
(* either creates it.                                                      *)
C21_OneWalletPerUser ==
    \A u \in Users :
        Cardinality({i \in 1..Len(wallets) : wallets[i].user_id = u}) <= 1

----------------------------------------------------------------------------
(* C23: when an update_city_engagement call on a city that exists writes  *)
(* engagement_score, the score the city holds afterwards is the score it  *)
(* held just before the write plus the delta of the call, so that two     *)
(* calls with deltas d1 and d2 leave previous + d1 + d2 and neither delta *)
(* is lost.                                                                *)
C23_NoLostEngagementDelta ==
    [][\A p \in Procs :
          (pc[p] = "ue_set" /\ pc'[p] = "cs_find"
              /\ FindCity(cities, lower(loc[p].city)) # 0) =>
          LET i == FindCity(cities, lower(loc[p].city)) IN
          cities'[i].engagement_score =
              FAdd(cities[i].engagement_score,
                   engagement_delta(loc[p].severity))]_vars

(* C24: every increment_city_report_count call, a call that creates the   *)
(* city included, raises the total_reports of the city's record by one    *)
(* and its resolved_reports or pending_reports by one according to the    *)
(* resolved flag, so that N completed calls raise total_reports by N.     *)
C24_EveryIncrementCounted ==
    [][\A p \in Procs :
          (pc[p] \in {"ci_update", "ci_upsert"}
              /\ pc'[p] \in {"ci_setname", "ci_read"}) =>
          LET n == lower(loc[p].city)
              i == FindCity(cities, n)
              j == FindCity(cities', n)
              old == IF i = 0 THEN NewCity(n) ELSE cities[i]
              new == IncReportCount(old, loc[p].arg = "resolved")
          IN /\ j # 0
             /\ cities'[j].total_reports = new.total_reports
             /\ cities'[j].resolved_reports = new.resolved_reports
             /\ cities'[j].pending_reports = new.pending_reports]_vars

(* C25: whenever no city operation is in progress, the scores every city  *)
(* stores are the scores calculate_city_score derives from the city's     *)
(* current counters.                                                       *)
C25_ScoresNeverStaleAtRest ==
    AllIdle =>
        \A i \in 1..Len(cities) :
            LET sc == city_scores(cities[i]) IN
            /\ cities[i].total_score = sc.total_score
            /\ cities[i].authority_score = sc.authority_score
            /\ cities[i].citizen_score = sc.citizen_score

(* C28: there is at most one city_stats document per lower-cased city     *)
(* name, so that calls whose city names differ only in letter case read   *)
(* and update the same document.                                           *)
C28_OneCityPerLowerName ==
    \A i, j \in 1..Len(cities) :
        cities[i].city_name_lower = cities[j].city_name_lower => i = j

(* C29: in every city_stats document total_reports is resolved_reports    *)
(* plus pending_reports, a missing counter reading as 0.                   *)
C29_TotalIsResolvedPlusPending ==
    \A i \in 1..Len(cities) :
        cities[i].total_reports =
            cities[i].resolved_reports + cities[i].pending_reports

(* a city created by the calls, counted once as resolved and once as pending *)
C29_Witness ==
    /\ AllIdle
    /\ \E i \in 1..Len(cities) :
          /\ cities[i].city_name_lower = "agra"
          /\ cities[i].resolved_reports = 1
          /\ cities[i].pending_reports = 1

(* C26: with the five badges of the catalog and record_report calls run   *)
(* one at a time, a call raises the user's total_reports by exactly 1, to *)
(* 1 when the user had no stats document, and once it has completed the   *)
(* user holds exactly one UserBadge of every badge whose required_reports *)
(* is at most total_reports and none of any other: bronze is assigned     *)
(* once, by the 10th report.                                               *)
C26_OneBadgePerTierReached ==
    [][\A p \in Procs :
          (loc[p].op = "record_report" /\ pc[p] # "idle") =>
          LET u == loc[p].user_id IN
          /\ TotalReports(u)' =
                IF pc[p] \in {"iu_inc", "iu_insert"} THEN TotalReports(u) + 1
                ELSE TotalReports(u)
          /\ pc'[p] = "idle" =>
                \A k \in 1..Len(badges) :
                    UserBadgeCount(u, badges[k].id)' =
                        IF badges[k].required_reports <= TotalReports(u)'
                        THEN 1 ELSE 0]_vars

(* the 10th report of a user has been recorded and has brought bronze,    *)
(* and the 11th has been recorded after it                                 *)
C26_Witness ==
    \E p \in Procs, u \in Users :
        /\ AllIdle
        /\ loc[p].op = "record_report" /\ loc[p].user_id = u
        /\ TotalReports(u) = 11
        /\ UserBadgeCount(u, badges[1].id) = 1

(* the reward steps of save_report_if_severe, in the order of its code *)
RewardOrder == <<"report", "badge", "coins", "city_reports", "city_engagement">>

(* C27: in a submission that stores a report for a user, a step writes    *)
(* the report only before any reward step, the badge records only after   *)
(* the report is stored and before the coins, the wallet and the ledger   *)
(* only after the badge step has returned, and the city statistics only   *)
(* after the coins are credited and only when the user has a city: first  *)
(* the report count, then, once that has returned, the engagement and the *)
(* scores.  The steps completed are always a prefix of report, badge,     *)
(* coins, city report count, city engagement.                              *)
C27_RewardStepsInOrder ==
    [][\A p \in Procs :
          (loc[p].op = "validate_waste_report" /\ pc[p] # "idle"
              /\ pc'[p] # pc[p]) =>
          LET u == loc[p].user_id
              done == loc[p].steps
          IN /\ loc'[p].steps = SubSeq(RewardOrder, 1, Len(loc'[p].steps))
             /\ Len(loc'[p].steps) \in {Len(done), Len(done) + 1}
             /\ reports' # reports => done = <<>>
             /\ (stats' # stats \/ user_badges' # user_badges) =>
                   /\ done = <<"report">>
                   /\ reports[loc[p].report].user_id = u
             /\ (wallets' # wallets \/ transactions' # transactions) =>
                   done = <<"report", "badge">>
             /\ cities' # cities =>
                   /\ u \in DOMAIN users /\ users[u] # ""
                   /\ done = IF pc[p] \in {"ci_update", "ci_upsert", "ci_setname"}
                             THEN SubSeq(RewardOrder, 1, 3)
                             ELSE SubSeq(RewardOrder, 1, 4)]_vars

(* a submission of a user with a city has run all five steps *)
C27_Witness ==
    \E p \in Procs :
        /\ pc[p] = "idle"
        /\ loc[p].op = "validate_waste_report"
        /\ loc[p].status = 200
        /\ loc[p].steps = RewardOrder
        /\ \E i \in 1..Len(cities) : cities[i].total_reports = 1

(* the users whose current city is the city of a lower-cased name *)
UsersOf(normalized_city) ==
    {u \in Users : users[u] # "" /\ lower(users[u]) = normalized_city}

(* C30: after update-user-city requests that have completed, the          *)
(* total_users of every city is the number of users whose current city    *)
(* is that city, names compared without regard to case, and is never      *)
(* negative; a request that sets the city the user already has leaves     *)
(* every total_users as it was.                                            *)
C30_TotalUsersCountsResidents ==
    AllIdle =>
        \A i \in 1..Len(cities) :
            /\ cities[i].total_users >= 0
            /\ cities[i].total_users = Cardinality(UsersOf(cities[i].city_name_lower))

====
